---- MODULE Spec2Model ----
(***************************************************************************)
(* Model of the Lacework MCP servers (src/server.py, src/server2.py).      *)
(*                                                                         *)
(* One tool invocation runs at a time (the invocations share no mutable    *)
(* state).  Init chooses the tool and its arguments.  The coroutine of a   *)
(* tool is cut at every await: an action runs the code up to the await     *)
(* that sends a request, and the next action is the coroutine's            *)
(* resumption, which takes the response the upstream chose and runs the    *)
(* code up to the next await or the return.                                *)
(*                                                                         *)
(* Representation of values                                                *)
(*  - a datetime is [sec, us]: whole seconds and the microsecond part;     *)
(*  - a 'YYYY-MM-DDTHH:MM:SSZ' string of server2.py is the number of       *)
(*    seconds it denotes (strptime gives us = 0, strftime drops us);       *)
(*  - a list of rows is a sequence of segments [c, n]: the first n rows    *)
(*    that chunk number c delivered;                                       *)
(*  - the strings run_lql_query inspects are sequences of code points;     *)
(*  - an optional value is a record with the field isNone.                 *)
(* The filters/returns payload of search_aws_compliance is carried through *)
(* unchanged by the code and is left out.                                  *)
(***************************************************************************)
EXTENDS Integers, Sequences, FiniteSets, TLC

---------------------------------------------------------------------------
(* Bounds of the checked instances *)

MaxWeeks == 3
MaxExtraDays == 1
MaxMicro == 1
LimitStep == 2500
MaxArgs == 2

(* Program constants *)

PageCap == 5000
ChunkDays == 7
DefaultWindowDays == 7
DefaultAlertLimit == 50

SecondsPerDay == 24 * 60 * 60

---------------------------------------------------------------------------
(* Optional values and Python truthiness *)

None == [isNone |-> TRUE, v |-> ""]
Some(x) == [isNone |-> FALSE, v |-> x]

\* bool(x) for an optional string: None and "" are falsy
Truthy(x) == ~x.isNone /\ x.v # ""

\* x or y
PyOr(x, y) == IF Truthy(x) THEN x ELSE y

Min(a, b) == IF a <= b THEN a ELSE b

---------------------------------------------------------------------------
(* datetime *)

Dt(s, u) == [sec |-> s, us |-> u]
DtLt(a, b) == a.sec < b.sec \/ (a.sec = b.sec /\ a.us < b.us)
DtMin(a, b) == IF DtLt(b, a) THEN b ELSE a
PlusDays(a, d) == Dt(a.sec + d * SecondsPerDay, a.us)
MinusDays(a, d) == Dt(a.sec - d * SecondsPerDay, a.us)

\* dt.strftime("%Y-%m-%dT%H:%M:%SZ"): the microseconds are not printed
strftime(dt) == dt.sec

\* datetime.strptime(s, "%Y-%m-%dT%H:%M:%SZ").replace(tzinfo=utc)
strptime(s) == Dt(s, 0)

\* time arguments of server2.py: absent, a well-formed instant, or a string
\* strptime rejects
NoTime == [isNone |-> TRUE, wellformed |-> FALSE, sec |-> 0]
TimeStr(s) == [isNone |-> FALSE, wellformed |-> TRUE, sec |-> s]
Malformed == [isNone |-> FALSE, wellformed |-> FALSE, sec |-> 0]

NowSec == MaxWeeks * ChunkDays * SecondsPerDay

\* the instants given as start_time and as end_time
StartPoints == {d * SecondsPerDay : d \in 0..MaxExtraDays} \cup {NowSec}
EndPoints == {w * ChunkDays * SecondsPerDay : w \in 0..MaxWeeks}

\* what datetime.now(timezone.utc) may return
Nows == {Dt(NowSec, u) : u \in 0..MaxMicro}

NoDt == Dt(0, 0)

---------------------------------------------------------------------------
(* Rows *)

RECURSIVE RowCount(_)
\* len(rows)
RowCount(segs) ==
    IF segs = <<>> THEN 0 ELSE Head(segs).n + RowCount(Tail(segs))

\* rows.extend(n rows delivered by chunk c)
Extend(segs, c, n) == IF n = 0 THEN segs ELSE Append(segs, [c |-> c, n |-> n])

RECURSIVE TakeRows(_, _)
TakeRows(segs, k) ==
    IF k <= 0 \/ segs = <<>> THEN <<>>
    ELSE IF Head(segs).n <= k
         THEN <<Head(segs)>> \o TakeRows(Tail(segs), k - Head(segs).n)
         ELSE <<[c |-> Head(segs).c, n |-> k]>>

\* the return without the slice
NoTruncate(rows, limit) == rows

\* all_rows[:limit], for limit >= 0
Truncate(rows, limit) == TakeRows(rows, limit)

---------------------------------------------------------------------------
(* Upstream responses *)

TokenStatuses == {200, 201, 302, 401}
TokenValues == {None, Some("tok")}
\* the token endpoint's answer: status, data.token, token
TokenResponses == [status : TokenStatuses, nested : TokenValues, top : TokenValues]

PageSizes == {0, 2000, 3000}
NoPaging == [nextPage |-> None, nextToken |-> None, cursor |-> None]
Pagings ==
    { NoPaging,
      [nextPage |-> Some("c"), nextToken |-> None, cursor |-> None],
      [nextPage |-> None, nextToken |-> Some("c"), cursor |-> None],
      [nextPage |-> Some(""), nextToken |-> None, cursor |-> Some("c")],
      [nextPage |-> Some(""), nextToken |-> None, cursor |-> None] }
\* the search endpoint's answer: status, number of rows in data, paging; a
\* redirect (httpx does not follow it) or an error answer carries neither rows
\* nor paging
SearchResponses ==
    [status : {200}, n : PageSizes, paging : Pagings]
      \cup [status : {302, 400, 500}, n : {0}, paging : {NoPaging}]

\* the statuses of the answers to GET /Alerts and to POST /Queries/../execute
AlertStatuses == {200, 302, 404}
PlainStatuses == {200, 404}

\* a check that lets 4xx answers through
OnlyServerErrors(status) == status >= 500

\* r.raise_for_status() raises HTTPStatusError: httpx raises for every status
\* that is not a 2xx
RaisesForStatus(status) == ~(200 <= status /\ status <= 299)

\* {"error": f"HTTP {status}", "details": r.text}
HttpError(status) == [error |-> <<"HTTP", status>>, details |-> <<"text", status>>]

\* paging.get("nextPage") or paging.get("nextToken") or paging.get("cursor")
NextCursor(paging) == PyOr(PyOr(paging.nextPage, paging.nextToken), paging.cursor)

\* server2.get_token's return value for a response that did not raise
GetToken2(resp) == PyOr(resp.nested, resp.top)

---------------------------------------------------------------------------
(* State *)

VARIABLES
    unidata_version,  \* the Unicode database of the interpreter server.py
                  \* runs on (unicodedata.unidata_version)
    tool,         \* the tool invoked
    pc,           \* where the invocation stands
    args,         \* the arguments the tool was called with
    start_time,   \* the parameter start_time, which the code may rebind
    end_time,     \* the parameter end_time, which the code may rebind
    requests,     \* the requests sent upstream, in order, each with the status
                  \* of its response; the POST that opens a chunk also with the
                  \* datetimes of the chunk and the rows and cursor it got (a
                  \* chunk's follow-up pages, unbounded in number, are not
                  \* logged: they show in body, data and cursor)
    r_status,     \* status code of the last response received, 0 before any
    token,        \* get_token's return value
    result,       \* the dict the tool returned
    arguments,    \* run_lql_query: the argument list being built
    start_dt,     \* search_aws_compliance: window start
    end_dt,       \* search_aws_compliance: window end
    all_rows,     \* search_aws_compliance: rows collected so far
    chunk_start,  \* search_aws_compliance: start of the current chunk
    chunk_end,    \* search_aws_compliance: end of the current chunk
    page_limit,   \* fetch_chunk: the chunk's row budget
    body,         \* fetch_chunk: the request body, its paging rewritten per page
    data,         \* fetch_chunk: number of rows the chunk has delivered
    cursor        \* fetch_chunk: the cursor of the last page

vars == <<unidata_version, tool, pc, args, start_time, end_time, requests,
          r_status, token, result, arguments, start_dt, end_dt, all_rows,
          chunk_start, chunk_end, page_limit, body, data, cursor>>

\* the interpreter, the invocation and the parameters an action does not
\* rebind
call == <<unidata_version, tool, args, start_time, end_time>>

searchLocals == <<start_dt, end_dt, all_rows, chunk_start, chunk_end,
                  page_limit, body, data, cursor>>

NoResult == [pending |-> TRUE]
NoBody == [startTime |-> 0, endTime |-> 0, paging |-> [cursor |-> None, limit |-> 0]]

\* no rows, less than a page, the page cap (for LimitStep = 2500), more
Limits == {0, LimitStep, 2 * LimitStep, 3 * LimitStep}
StartTimes == {NoTime} \cup {TimeStr(s) : s \in StartPoints}
EndTimes == {NoTime} \cup {TimeStr(s) : s \in EndPoints}

SearchArgs ==
    [start_time : StartTimes \cup {Malformed}, end_time : EndTimes \cup {Malformed},
     limit : Limits]

AlertArgs == [start_time : StartTimes, end_time : EndTimes, limit : {DefaultAlertLimit}]

InitLocals ==
    /\ pc = "start"
    /\ requests = <<>>
    /\ r_status = 0
    /\ token = None
    /\ result = NoResult
    /\ arguments = <<>>
    /\ start_dt = NoDt
    /\ end_dt = NoDt
    /\ all_rows = <<>>
    /\ chunk_start = NoDt
    /\ chunk_end = NoDt
    /\ page_limit = 0
    /\ body = NoBody
    /\ data = 0
    /\ cursor = None

---------------------------------------------------------------------------
(* server2.py: ping *)

Ping2 ==
    /\ tool = "ping2"
    /\ pc = "start"
    /\ \E tr \in TokenResponses :
         /\ requests' = Append(requests, [kind |-> "token"])
         /\ r_status' = tr.status
         /\ IF RaisesForStatus(tr.status)
            THEN /\ result' = [ok |-> FALSE, error |-> <<"HTTPStatusError", tr.status>>]
                 /\ token' = token
            ELSE /\ token' = GetToken2(tr)
                 /\ result' = [ok |-> TRUE,
                               token_preview |-> IF Truthy(token') THEN token' ELSE None]
    /\ pc' = "done"
    /\ UNCHANGED <<call, arguments, searchLocals>>

(* server2.py: list_alerts *)

\* the lines up to `await get_token()`: the defaults of the window
ListAlertsStart ==
    /\ tool = "list_alerts"
    /\ pc = "start"
    /\ \E now \in Nows :
         /\ end_time' = IF end_time.isNone THEN TimeStr(strftime(now)) ELSE end_time
         /\ start_time' = IF start_time.isNone
                          THEN TimeStr(strftime(MinusDays(now, DefaultWindowDays)))
                          ELSE start_time
    /\ pc' = "token"
    /\ UNCHANGED <<unidata_version, tool, args, requests, r_status, token,
                   result, arguments, searchLocals>>

\* get_token's request is answered
ListAlertsToken ==
    /\ tool = "list_alerts"
    /\ pc = "token"
    /\ \E tr \in TokenResponses :
         /\ requests' = Append(requests, [kind |-> "token"])
         /\ r_status' = tr.status
         /\ IF RaisesForStatus(tr.status)
            THEN /\ result' = HttpError(tr.status)
                 /\ pc' = "done"
                 /\ token' = token
            ELSE /\ token' = GetToken2(tr)
                 /\ pc' = "get"
                 /\ result' = result
    /\ UNCHANGED <<call, arguments, searchLocals>>

\* the GET is answered: a status >= 400 is returned as an error at once, any
\* other status that is no 2xx through raise_for_status and the handler
ListAlertsGet ==
    /\ tool = "list_alerts"
    /\ pc = "get"
    /\ \E status \in AlertStatuses :
         /\ requests' = Append(requests,
                [kind |-> "alerts", status |-> status, auth |-> token,
                 startTime |-> start_time.sec, endTime |-> end_time.sec,
                 limit |-> args.limit])
         /\ r_status' = status
         /\ result' = IF status >= 400 \/ RaisesForStatus(status)
                      THEN HttpError(status) ELSE [json |-> "alerts"]
    /\ pc' = "done"
    /\ UNCHANGED <<call, token, arguments, searchLocals>>

---------------------------------------------------------------------------
(* server2.py: search_aws_compliance *)

\* the loop test without its limit conjunct
NoLimitCheck(cs, e, nrows, limit) == DtLt(cs, e)

\* while chunk_start < end_dt and len(all_rows) < limit
MoreChunks(cs, e, nrows, limit) == DtLt(cs, e) /\ nrows < limit

\* min(limit - len(all_rows), 5000), the page_limit handed to fetch_chunk
ChunkBudget(limit, nrows) == Min(limit - nrows, PageCap)

\* while cursor and len(data) < page_limit
MorePages(c, ndata, budget) == Truthy(c) /\ ndata < budget

\* the search POSTs that opened a chunk
ChunkRequests == SelectSeq(requests, LAMBDA q : q.kind = "search")

\* the lines up to `await get_token()`: end_dt, then start_dt; a string that
\* strptime rejects ends the tool with what was assigned before it
SearchStart ==
    /\ tool = "search"
    /\ pc = "start"
    /\ \E now \in Nows :
         IF ~end_time.isNone /\ ~end_time.wellformed
         THEN /\ result' = [error |-> "ValueError"]
              /\ pc' = "done"
              /\ UNCHANGED <<start_dt, end_dt>>
         ELSE /\ end_dt' = IF end_time.isNone THEN now ELSE strptime(end_time.sec)
              /\ IF ~start_time.isNone /\ ~start_time.wellformed
                 THEN /\ result' = [error |-> "ValueError"]
                      /\ pc' = "done"
                      /\ start_dt' = start_dt
                 ELSE /\ start_dt' = IF start_time.isNone
                                     THEN MinusDays(end_dt', DefaultWindowDays)
                                     ELSE strptime(start_time.sec)
                      /\ pc' = "token"
                      /\ result' = result
    /\ UNCHANGED <<call, requests, r_status, token, arguments, all_rows,
                   chunk_start, chunk_end, page_limit, body, data, cursor>>

\* get_token's request is answered; all_rows = [], chunk_start = start_dt
SearchToken ==
    /\ tool = "search"
    /\ pc = "token"
    /\ \E tr \in TokenResponses :
         /\ requests' = Append(requests, [kind |-> "token"])
         /\ r_status' = tr.status
         /\ IF RaisesForStatus(tr.status)
            THEN /\ result' = HttpError(tr.status)
                 /\ pc' = "done"
                 /\ UNCHANGED <<token, all_rows, chunk_start>>
            ELSE /\ token' = GetToken2(tr)
                 /\ all_rows' = <<>>
                 /\ chunk_start' = start_dt
                 /\ pc' = "chunk_loop"
                 /\ result' = result
    /\ UNCHANGED <<call, arguments, start_dt, end_dt, chunk_end, page_limit,
                   body, data, cursor>>

\* the outer loop's test succeeds: fetch_chunk is entered and builds its body
ChunkNext ==
    /\ tool = "search"
    /\ pc = "chunk_loop"
    /\ MoreChunks(chunk_start, end_dt, RowCount(all_rows), args.limit)
    /\ chunk_end' = DtMin(PlusDays(chunk_start, ChunkDays), end_dt)
    /\ page_limit' = ChunkBudget(args.limit, RowCount(all_rows))
    /\ body' = [startTime |-> strftime(chunk_start),
                endTime |-> strftime(chunk_end'),
                paging |-> [cursor |-> None, limit |-> Min(page_limit', PageCap)]]
    /\ pc' = "first_page"
    /\ UNCHANGED <<call, requests, r_status, token, result, arguments,
                   start_dt, end_dt, all_rows, chunk_start, data, cursor>>

\* the outer loop's test fails: return {"data": all_rows[:limit]}
SearchReturn ==
    /\ tool = "search"
    /\ pc = "chunk_loop"
    /\ ~MoreChunks(chunk_start, end_dt, RowCount(all_rows), args.limit)
    /\ result' = [data |-> Truncate(all_rows, args.limit)]
    /\ pc' = "done"
    /\ UNCHANGED <<call, requests, r_status, token, arguments, searchLocals>>

\* first = await _post_json(...) is answered; the lines up to the inner loop
FirstPage ==
    /\ tool = "search"
    /\ pc = "first_page"
    /\ \E resp \in SearchResponses :
         /\ requests' = Append(requests,
                [kind |-> "search", status |-> resp.status, auth |-> token,
                 body |-> body, s_dt |-> chunk_start, e_dt |-> chunk_end,
                 rows |-> resp.n, more |-> Truthy(NextCursor(resp.paging))])
         /\ r_status' = resp.status
         /\ IF RaisesForStatus(resp.status)
            THEN /\ result' = HttpError(resp.status)
                 /\ pc' = "done"
                 /\ UNCHANGED <<data, cursor>>
            ELSE /\ data' = resp.n
                 /\ cursor' = NextCursor(resp.paging)
                 /\ pc' = "page_loop"
                 /\ result' = result
    /\ UNCHANGED <<call, token, arguments, start_dt, end_dt, all_rows,
                   chunk_start, chunk_end, page_limit, body>>

\* the inner loop's test succeeds: body["paging"] is rewritten and the
\* follow-up request is sent
NextPage ==
    /\ tool = "search"
    /\ pc = "page_loop"
    /\ MorePages(cursor, data, page_limit)
    /\ body' = [body EXCEPT !.paging =
                    [cursor |-> cursor, limit |-> Min(page_limit - data, PageCap)]]
    /\ pc' = "next_page"
    /\ UNCHANGED <<call, requests, r_status, token, result, arguments, start_dt,
                   end_dt, all_rows, chunk_start, chunk_end, page_limit, data,
                   cursor>>

\* nxt = await _post_json(...) is answered: data.extend(nd), the new cursor
NextPageResponse ==
    /\ tool = "search"
    /\ pc = "next_page"
    /\ \E resp \in SearchResponses :
         /\ r_status' = resp.status
         /\ IF RaisesForStatus(resp.status)
            THEN /\ result' = HttpError(resp.status)
                 /\ pc' = "done"
                 /\ UNCHANGED <<data, cursor>>
            ELSE /\ data' = data + resp.n
                 /\ cursor' = NextCursor(resp.paging)
                 /\ pc' = "page_loop"
                 /\ result' = result
    /\ UNCHANGED <<call, requests, token, arguments, start_dt, end_dt,
                   all_rows, chunk_start, chunk_end, page_limit, body>>

\* the inner loop's test fails: fetch_chunk returns, all_rows.extend(rows),
\* chunk_start = chunk_end
ChunkDone ==
    /\ tool = "search"
    /\ pc = "page_loop"
    /\ ~MorePages(cursor, data, page_limit)
    /\ all_rows' = Extend(all_rows, Len(ChunkRequests), data)
    /\ chunk_start' = chunk_end
    /\ pc' = "chunk_loop"
    /\ UNCHANGED <<call, requests, r_status, token, result, arguments,
                   start_dt, end_dt, chunk_end, page_limit, body, data, cursor>>

---------------------------------------------------------------------------
(* server.py: the strings run_lql_query inspects.  A str is the sequence of *)
(* its code points.                                                         *)

NoStr == [isNone |-> TRUE, v |-> <<>>]

\* bool(x) for an optional str
TruthyStr(x) == ~x.isNone /\ Len(x.v) > 0

\* ord(c) for the characters the model names
ord ==
    ("0" :> 48) @@ ("1" :> 49) @@ ("2" :> 50) @@ ("3" :> 51) @@ ("4" :> 52)
      @@ ("5" :> 53) @@ ("6" :> 54) @@ ("7" :> 55) @@ ("8" :> 56) @@ ("9" :> 57)
      @@ (" " :> 32) @@ ("-" :> 45) @@ (":" :> 58) @@ ("T" :> 84) @@ ("Z" :> 90)
      @@ ("a" :> 97) @@ ("b" :> 98) @@ ("n" :> 110) @@ ("o" :> 111) @@ ("w" :> 119)

RECURSIVE Str(_)
\* the str made of the characters given
Str(chars) ==
    IF chars = <<>> THEN <<>>
    ELSE Append(Str(SubSeq(chars, 1, Len(chars) - 1)), ord[chars[Len(chars)]])

\* the interpreters modelled, the source asking for Python 3.10+: Python 3.10
\* (Unicode 13.0.0), 3.11 (14.0.0), 3.12 (15.0.0), 3.13 (15.1.0) and 3.14
\* (16.0.0)
UnidataVersions == {"13.0.0", "14.0.0", "15.0.0", "15.1.0", "16.0.0"}

\* server2.py runs as a process of its own; its time strings are classified
\* by what its strptime does with them (TimeStr, Malformed), so that its
\* interpreter's database has no part in the model
Untracked == "untracked"

\* the code points of the digits 0 of the decimal digits (category Nd) of
\* Unicode 13.0.0: each is followed by its digits 1 to 9.
\* ASCII, Arabic-Indic, ..., fullwidth (65296), ...
DigitBlocks13 ==
    {48, 1632, 1776, 1984, 2406, 2534, 2662, 2790, 2918, 3046, 3174, 3302, 3430,
     3558, 3664, 3792, 3872, 4160, 4240, 6112, 6160, 6470, 6608, 6784, 6800,
     6992, 7088, 7232, 7248, 42528, 43216, 43264, 43472, 43504, 43600, 44016,
     65296, 66720, 68912, 69734, 69872, 69942, 70096, 70384, 70736, 70864,
     71248, 71360, 71472, 71904, 72016, 72784, 73040, 73120, 92768, 93008,
     120782, 120792, 120802, 120812, 120822, 123200, 123632, 125264, 130032}

\* the decimal digits Unicode 14 added: Tangsa (U+16AC0..)
DigitBlocksAdded14 == {92864}

\* the decimal digits Unicode 15 added: Kawi (U+11F50..) and Nag Mundari
\* (U+1E4F0..); Unicode 15.1 added none
DigitBlocksAdded15 == {73552, 124144}

\* the decimal digits Unicode 16 added: Garay (U+10D40..), Myanmar Extended-C
\* (U+116D0.., U+116DA..), Sunuwar (U+11BF0..), Gurung Khema (U+16130..),
\* Kirat Rai (U+16D70..), outlined digits (U+1CCF0..), Ol Onal (U+1E5F1..)
DigitBlocksAdded16 == {68928, 71376, 71386, 72688, 90416, 93552, 118000, 124401}

\* the digits 0 of the decimal digits the interpreter knows
DigitBlocks ==
    DigitBlocks13
      \cup (IF unidata_version \in {"14.0.0", "15.0.0", "15.1.0", "16.0.0"}
            THEN DigitBlocksAdded14 ELSE {})
      \cup (IF unidata_version \in {"15.0.0", "15.1.0", "16.0.0"}
            THEN DigitBlocksAdded15 ELSE {})
      \cup (IF unidata_version = "16.0.0" THEN DigitBlocksAdded16 ELSE {})

\* what \d of a str pattern matches
Digits == UNION {b..(b + 9) : b \in DigitBlocks}
\* [1-9]
NonZeroDigits == (ord["1"])..(ord["9"])

\* int(ch) for a decimal digit
DigitVal(ch) == ch - (CHOOSE b \in DigitBlocks : b <= ch /\ ch <= b + 9)

\* str(d) for 0 <= d <= 9
DigitChar(d) == ord["0"] + d

RECURSIVE NumVal(_)
\* int(s) for a str of decimal digits
NumVal(s) ==
    IF s = <<>> THEN 0
    ELSE NumVal(SubSeq(s, 1, Len(s) - 1)) * 10 + DigitVal(s[Len(s)])

RECURSIVE Decimal(_)
\* str(i) for an int i >= 0
Decimal(i) ==
    IF i < 10 THEN <<DigitChar(i)>> ELSE Append(Decimal(i \div 10), DigitChar(i % 10))

Contains(s, ch) == \E i \in 1..Len(s) : s[i] = ch
EndsWith(s, ch) == Len(s) > 0 /\ s[Len(s)] = ch

\* the groups of _strptime's regular expression for %Y (\d\d\d\d),
\* %m (1[0-2]|0[1-9]|[1-9]) and %d (3[0-1]|[1-2]\d|0[1-9]|[1-9]| [1-9])
YearField(y) == Len(y) = 4 /\ \A i \in 1..4 : y[i] \in Digits
MonthField(m) ==
    \/ Len(m) = 2 /\ m[1] = ord["1"] /\ m[2] \in {ord["0"], ord["1"], ord["2"]}
    \/ Len(m) = 2 /\ m[1] = ord["0"] /\ m[2] \in NonZeroDigits
    \/ Len(m) = 1 /\ m[1] \in NonZeroDigits
DayField(d) ==
    \/ Len(d) = 2 /\ d[1] = ord["3"] /\ d[2] \in {ord["0"], ord["1"]}
    \/ Len(d) = 2 /\ d[1] \in {ord["1"], ord["2"]} /\ d[2] \in Digits
    \/ Len(d) = 2 /\ d[1] \in {ord["0"], ord[" "]} /\ d[2] \in NonZeroDigits
    \/ Len(d) = 1 /\ d[1] \in NonZeroDigits

IsLeap(y) == y % 4 = 0 /\ (y % 100 # 0 \/ y % 400 = 0)
DaysInMonth(y, m) ==
    IF m = 2 THEN (IF IsLeap(y) THEN 29 ELSE 28)
    ELSE IF m \in {4, 6, 9, 11} THEN 30 ELSE 31

\* datetime.strptime(ts, "%Y-%m-%d") does not raise
ParsesAsDate(ts) ==
    \E i, j \in 1..Len(ts) :
        /\ i < j
        /\ ts[i] = ord["-"]
        /\ ts[j] = ord["-"]
        /\ LET y == SubSeq(ts, 1, i - 1)
               m == SubSeq(ts, i + 1, j - 1)
               d == SubSeq(ts, j + 1, Len(ts))
           IN  /\ YearField(y)
               /\ MonthField(m)
               /\ DayField(d)
               /\ NumVal(y) >= 1
               /\ NumVal(SelectSeq(d, LAMBDA ch : ch # ord[" "]))
                      <= DaysInMonth(NumVal(y), NumVal(m))

MidnightZ == Str(<<"T", "0", "0", ":", "0", "0", ":", "0", "0", "Z">>)

ensure_utc_iso8601(ts) ==
    IF ts = <<>> THEN ts
    ELSE IF Contains(ts, ord["T"]) /\ EndsWith(ts, ord["Z"]) THEN ts
    ELSE IF ParsesAsDate(ts) THEN ts \o MidnightZ
    ELSE ts

\* sample strings
Date0101 == Str(<<"2", "0", "2", "4", "-", "0", "1", "-", "0", "1">>)
Date0102 == Str(<<"2", "0", "2", "4", "-", "1", "-", "2">>)
Date0230 == Str(<<"2", "0", "2", "4", "-", "0", "2", "-", "3", "0">>)
Instant0101 == Date0101 \o MidnightZ
Instant0102 == Str(<<"2", "0", "2", "4", "-", "0", "1", "-", "0", "2">>) \o MidnightZ
Word == Str(<<"n", "o", "w">>)
\* "2024-01-01" with the year in fullwidth digits (U+FF10..)
DateFullwidth == <<65298, 65296, 65298, 65300>> \o Str(<<"-", "0", "1", "-", "0", "1">>)
\* "2024-01-13" with the last digit Arabic-Indic (U+0663)
DateArabicIndic == Str(<<"2", "0", "2", "4", "-", "0", "1", "-", "1">>) \o <<1635>>
\* "2024-01-13" with the last digit Kawi (U+11F53): a digit since Unicode 15
DateKawi == Str(<<"2", "0", "2", "4", "-", "0", "1", "-", "1">>) \o <<73555>>
\* "2024-01-13" with the last digit Tangsa (U+16AC3): a digit since Unicode 14
DateTangsa == Str(<<"2", "0", "2", "4", "-", "0", "1", "-", "1">>) \o <<92867>>
\* "2024-01-13" with the last digit Garay (U+10D43): a digit since Unicode 16
DateGaray == Str(<<"2", "0", "2", "4", "-", "0", "1", "-", "1">>) \o <<68931>>

StartStrings ==
    {NoStr, Some(<<>>), Some(Date0101), Some(Instant0101), Some(Date0230),
     Some(DateFullwidth), Some(DateKawi)}
EndStrings ==
    {NoStr, Some(Date0102), Some(Instant0102), Some(Word), Some(DateArabicIndic),
     Some(DateTangsa), Some(DateGaray)}

(* server.py: the entries of args *)

\* a Python value used as an entry's value: a str or an int
StrVal(s) == [t |-> "str", s |-> s, i |-> 0]
IntVal(i) == [t |-> "int", s |-> <<>>, i |-> i]

\* str(v)
PyStr(v) == IF v.t = "str" THEN v.s ELSE Decimal(v.i)

Entry(n, v) == [isDict |-> TRUE, hasName |-> TRUE, hasValue |-> TRUE, name |-> n, value |-> v]
NameOnly(n) ==
    [isDict |-> TRUE, hasName |-> TRUE, hasValue |-> FALSE, name |-> n, value |-> StrVal(<<>>)]
NotADict ==
    [isDict |-> FALSE, hasName |-> FALSE, hasValue |-> FALSE, name |-> "", value |-> StrVal(<<>>)]

Items ==
    { Entry("StartTimeRange", StrVal(Str(<<"a">>))),
      Entry("EndTimeRange", StrVal(Str(<<"b">>))),
      Entry("x", StrVal(Str(<<"a">>))),
      Entry("x", IntVal(17)),
      NameOnly("x"),
      NotADict }

ArgLists ==
    {[isNone |-> TRUE, v |-> <<>>]}
      \cup {Some(l) : l \in UNION {[1..n -> Items] : n \in 0..MaxArgs}}

QueryIds == {"", "q"}

LqlArgs ==
    [query_id : QueryIds, start_time : StartStrings, end_time : EndStrings,
     args : ArgLists]

\* isinstance(item, dict) and "name" in item and "value" in item
WellFormed(item) == item.isDict /\ item.hasName /\ item.hasValue

RECURSIVE Validated(_)
\* the loop over args: the well-formed entries, name and value passed to str
Validated(items) ==
    IF items = <<>> THEN <<>>
    ELSE IF WellFormed(Head(items))
         THEN <<[name |-> Head(items).name, value |-> PyStr(Head(items).value)]>>
                  \o Validated(Tail(items))
         ELSE Validated(Tail(items))

\* an override that forgets to remove the entries given
KeepAll(arglist, name) == arglist

\* [a for a in arguments if a.get("name") != name]
RemoveNamed(arglist, name) == SelectSeq(arglist, LAMBDA a : a.name # name)

\* start_time = ensure_utc_iso8601(start_time) under `if start_time:`
Rebound(t) == IF TruthyStr(t) THEN Some(ensure_utc_iso8601(t.v)) ELSE t

\* the rest of the block under `if start_time:` / `if end_time:`, ts the
\* rebound time
Override(arglist, name, ts) ==
    Append(RemoveNamed(arglist, name), [name |-> name, value |-> ts])

\* the lines from `arguments = []` to the await
BuildArguments(given, st, et) ==
    LET a0 == IF ~given.isNone /\ Len(given.v) > 0 THEN Validated(given.v) ELSE <<>>
        a1 == IF TruthyStr(st) THEN Override(a0, "StartTimeRange", Rebound(st).v) ELSE a0
    IN  IF TruthyStr(et) THEN Override(a1, "EndTimeRange", Rebound(et).v) ELSE a1

\* a guard that lets the empty query_id through
NeverMissing(q) == FALSE

\* not query_id
QueryIdMissing(q) == q = ""

\* server.get_token: what it raises, or the token it returns
GetToken1(resp) ==
    IF resp.status \notin {200, 201}
    THEN [raised |-> TRUE, error |-> <<"Auth failed HTTP", resp.status>>, token |-> None]
    ELSE LET t == PyOr(resp.nested, resp.top)
         IN  IF ~Truthy(t)
             THEN [raised |-> TRUE, error |-> <<"Auth response did not contain token", 0>>,
                   token |-> None]
             ELSE [raised |-> FALSE, error |-> <<"", 0>>, token |-> t]

(* server.py: ping *)

Ping1 ==
    /\ tool = "ping"
    /\ pc = "start"
    /\ \E tr \in TokenResponses :
         LET g == GetToken1(tr)
         IN  /\ requests' = Append(requests, [kind |-> "token"])
             /\ r_status' = tr.status
             /\ token' = g.token
             /\ result' = IF g.raised THEN [ok |-> FALSE, error |-> g.error]
                          ELSE [ok |-> TRUE, token_preview |-> g.token]
    /\ pc' = "done"
    /\ UNCHANGED <<call, arguments, searchLocals>>

(* server.py: run_lql_query *)

\* the lines up to `await get_token()`: the guard, the argument list, the
\* times rebound to their normal form
RunLqlStart ==
    /\ tool = "run_lql_query"
    /\ pc = "start"
    /\ IF QueryIdMissing(args.query_id)
       THEN /\ result' = [error |-> "query_id is required"]
            /\ pc' = "done"
            /\ UNCHANGED <<arguments, start_time, end_time>>
       ELSE /\ arguments' = BuildArguments(args.args, start_time, end_time)
            /\ start_time' = Rebound(start_time)
            /\ end_time' = Rebound(end_time)
            /\ pc' = "token"
            /\ result' = result
    /\ UNCHANGED <<unidata_version, tool, args, requests, r_status, token,
                   searchLocals>>

\* get_token's request is answered
RunLqlToken ==
    /\ tool = "run_lql_query"
    /\ pc = "token"
    /\ \E tr \in TokenResponses :
         LET g == GetToken1(tr)
         IN  /\ requests' = Append(requests, [kind |-> "token"])
             /\ r_status' = tr.status
             /\ token' = g.token
             /\ IF g.raised
                THEN result' = [error |-> g.error] /\ pc' = "done"
                ELSE result' = result /\ pc' = "execute"
    /\ UNCHANGED <<call, arguments, searchLocals>>

\* the POST is answered
RunLqlExecute ==
    /\ tool = "run_lql_query"
    /\ pc = "execute"
    /\ \E status \in PlainStatuses :
         /\ requests' = Append(requests,
                [kind |-> "execute", status |-> status, auth |-> token,
                 query_id |-> args.query_id, arguments |-> arguments])
         /\ r_status' = status
         /\ result' = IF status >= 400 THEN HttpError(status) ELSE [json |-> "rows"]
    /\ pc' = "done"
    /\ UNCHANGED <<call, token, arguments, searchLocals>>

---------------------------------------------------------------------------
\* the parameters start_time and end_time start as the arguments passed
Init ==
    /\ InitLocals
    /\ \/ tool = "ping" /\ args = [none |-> TRUE]
       \/ tool = "run_lql_query" /\ args \in LqlArgs
       \/ tool = "ping2" /\ args = [none |-> TRUE]
       \/ tool = "list_alerts" /\ args \in AlertArgs
       \/ tool = "search" /\ args \in SearchArgs
    /\ unidata_version \in IF tool \in {"ping", "run_lql_query"}
                           THEN UnidataVersions ELSE {Untracked}
    /\ start_time = IF "start_time" \in DOMAIN args THEN args.start_time ELSE NoTime
    /\ end_time = IF "end_time" \in DOMAIN args THEN args.end_time ELSE NoTime

Next ==
    \/ Ping1
    \/ RunLqlStart
    \/ RunLqlToken
    \/ RunLqlExecute
    \/ Ping2
    \/ ListAlertsStart
    \/ ListAlertsToken
    \/ ListAlertsGet
    \/ SearchStart
    \/ SearchToken
    \/ ChunkNext
    \/ SearchReturn
    \/ FirstPage
    \/ NextPage
    \/ NextPageResponse
    \/ ChunkDone

Spec == Init /\ [][Next]_vars

\* every HTTP request gets its response and the event loop keeps running the
\* invocation: no step that is possible is postponed forever
FairSpec == Spec /\ WF_vars(Next)

---------------------------------------------------------------------------
(* Properties *)

Searching == tool = "search"
Returned == pc = "done"
ReturnedData == Searching /\ pc = "done" /\ "data" \in DOMAIN result

RECURSIVE SumRows(_, _)
\* rows delivered by the first k chunk-opening responses
SumRows(cr, k) == IF k = 0 THEN 0 ELSE cr[k].rows + SumRows(cr, k - 1)

RECURSIVE Concat(_, _)
\* the rows of the first k chunk-opening responses, in chunk order
Concat(cr, k) ==
    IF k = 0 THEN <<>>
    ELSE LET before == Concat(cr, k - 1)
         IN  IF cr[k].rows = 0 THEN before
             ELSE Append(before, [c |-> k, n |-> cr[k].rows])

\* C1: a successful search_aws_compliance result holds at most limit rows.
InvC1_DataWithinLimit ==
    ReturnedData => RowCount(result.data) <= args.limit

\* C1 witness: more rows than limit were collected and the result was cut
\* to exactly limit rows.
WitC1_Truncated ==
    /\ ReturnedData
    /\ args.limit > 0
    /\ RowCount(all_rows) > args.limit
    /\ RowCount(result.data) = args.limit

\* C2: once a response of the search has status >= 400 (token request, first
\* page or follow-up page), the search has returned (no further step, hence
\* no further request, is possible) and its result has exactly the fields
\* error and details: no data, whatever was collected.
InvC2_ErrorAborts ==
    (Searching /\ r_status >= 400) =>
        /\ pc = "done"
        /\ DOMAIN result = {"error", "details"}
        /\ result = HttpError(r_status)

\* C2 witness: a follow-up page of a later chunk failed after rows of an
\* earlier chunk had been collected.
WitC2_ErrorAfterRows ==
    /\ Searching
    /\ r_status >= 400
    /\ RowCount(all_rows) > 0
    /\ Truthy(body.paging.cursor)
    /\ Len(ChunkRequests) >= 2

\* C3 (as claimed): the search leaves a chunk that still returns a cursor
\* only when limit rows have been collected overall.
CexC3_LeavesChunkOnlyAtLimit ==
    (Searching /\ pc = "chunk_loop" /\ Len(ChunkRequests) >= 1 /\ Truthy(cursor))
        => RowCount(all_rows) >= args.limit

\* C4 (as claimed): no authenticated request is sent without a token, and a
\* ping that got no token does not report ok.
CexC4_NoTokenNoAuth ==
    /\ \A i \in 1..Len(requests) :
           requests[i].kind # "token" => Truthy(requests[i].auth)
    /\ (tool \in {"ping", "ping2"} /\ pc = "done" /\ ~Truthy(token))
           => result.ok = FALSE

\* C5 (as claimed): the chunks requested are consecutive from the window
\* start, non-empty, at most 7 days long, within the window, none is
\* requested once limit rows are collected, and a search that returns with
\* fewer than limit rows has requested the chunk that ends at the window end.
CexC5_ChunksPartitionWindow ==
    Searching =>
        LET cr == ChunkRequests
        IN  /\ Len(cr) >= 1 => cr[1].body.startTime = strftime(start_dt)
            /\ \A i \in 2..Len(cr) : cr[i].body.startTime = cr[i - 1].body.endTime
            /\ \A i \in 1..Len(cr) :
                   /\ cr[i].body.startTime < cr[i].body.endTime
                   /\ cr[i].body.endTime - cr[i].body.startTime
                          <= ChunkDays * SecondsPerDay
                   /\ cr[i].body.endTime <= strftime(end_dt)
                   /\ SumRows(cr, i - 1) < args.limit
            /\ (ReturnedData /\ RowCount(all_rows) < args.limit /\ Len(cr) >= 1)
                   => cr[Len(cr)].body.endTime = strftime(end_dt)

\* The same with the chunks taken as the datetimes the loop computes (not a
\* claim of its own: it shows what of C5 the code does keep).
ChunksPartitionWindowDt ==
    Searching =>
        LET cr == ChunkRequests
        IN  /\ Len(cr) >= 1 => cr[1].s_dt = start_dt
            /\ \A i \in 2..Len(cr) : cr[i].s_dt = cr[i - 1].e_dt
            /\ \A i \in 1..Len(cr) :
                   /\ DtLt(cr[i].s_dt, cr[i].e_dt)
                   /\ ~DtLt(PlusDays(cr[i].s_dt, ChunkDays), cr[i].e_dt)
                   /\ ~DtLt(end_dt, cr[i].e_dt)
                   /\ cr[i].body.startTime = strftime(cr[i].s_dt)
                   /\ cr[i].body.endTime = strftime(cr[i].e_dt)
                   /\ cr[i].body.startTime <= cr[i].body.endTime
                   /\ cr[i].body.endTime - cr[i].body.startTime
                          <= ChunkDays * SecondsPerDay
                   /\ SumRows(cr, i - 1) < args.limit
            /\ (ReturnedData /\ RowCount(all_rows) < args.limit /\ Len(cr) >= 1)
                   => cr[Len(cr)].e_dt = end_dt

\* C6: when every chunk answered with one page and no cursor, the data
\* returned is the first min(limit, total) rows of the chunk responses in
\* chunk order, a chunk was requested only while fewer than limit rows had
\* been delivered, and with fewer than limit rows in total every chunk of the
\* window was requested.
InvC6_SinglePageResult ==
    LET cr == ChunkRequests
        total == SumRows(cr, Len(cr))
    IN  (ReturnedData /\ \A i \in 1..Len(cr) : ~cr[i].more) =>
            /\ RowCount(result.data) = Min(args.limit, total)
            /\ result.data = TakeRows(Concat(cr, Len(cr)), args.limit)
            /\ \A i \in 1..Len(cr) : SumRows(cr, i - 1) < args.limit
            /\ total < args.limit =>
                   IF Len(cr) = 0 THEN ~DtLt(start_dt, end_dt)
                   ELSE /\ cr[1].s_dt = start_dt
                        /\ cr[Len(cr)].e_dt = end_dt
                        /\ \A i \in 2..Len(cr) : cr[i].s_dt = cr[i - 1].e_dt

\* C6 witness: the 20-day window, 3000 rows per chunk and no cursor, limit
\* 5000: 3000 rows of the first chunk, 2000 of the second, no third request.
WitC6_TwentyDays ==
    /\ ReturnedData
    /\ args.limit = 5000
    /\ end_dt.sec - start_dt.sec = 20 * SecondsPerDay
    /\ Len(ChunkRequests) = 2
    /\ \A i \in 1..2 : ChunkRequests[i].rows = 3000 /\ ~ChunkRequests[i].more
    /\ result.data = <<[c |-> 1, n |-> 3000], [c |-> 2, n |-> 2000]>>

\* C7 (as claimed): every time window sent upstream by list_alerts and by
\* search_aws_compliance has start <= end.
CexC7_WindowsOrdered ==
    \A i \in 1..Len(requests) :
        /\ requests[i].kind = "alerts" => requests[i].startTime <= requests[i].endTime
        /\ requests[i].kind = "search" =>
               requests[i].body.startTime <= requests[i].body.endTime

\* C8: run_lql_query with an empty query_id sends nothing upstream and
\* returns the error "query_id is required".
InvC8_EmptyQueryId ==
    (tool = "run_lql_query" /\ args.query_id = "") =>
        /\ requests = <<>>
        /\ pc \in {"start", "done"}
        /\ pc = "done" => result = [error |-> "query_id is required"]

\* C8 witness: such a call has returned.
WitC8_Rejected ==
    tool = "run_lql_query" /\ args.query_id = "" /\ pc = "done"

TimeNames == {"StartTimeRange", "EndTimeRange"}
SuppliedTime(name) == IF name = "StartTimeRange" THEN args.start_time ELSE args.end_time
Named(arglist, name) == SelectSeq(arglist, LAMBDA a : a.name = name)
\* the entries of a list that no supplied time replaces
Kept(arglist) ==
    SelectSeq(arglist, LAMBDA a :
        ~(a.name \in TimeNames /\ TruthyStr(SuppliedTime(a.name))))
GivenEntries == IF args.args.isNone THEN <<>> ELSE Validated(args.args.v)

\* "T00:00:00Z"
MidnightSuffix == <<84, 48, 48, 58, 48, 48, 58, 48, 48, 90>>

\* The normal form of each sample time, written out: an instant is left as
\* it is, a calendar date gets the midnight suffix, anything else is left as
\* it is.  "2024-1-2" is a date for strptime, "2024-02-30" is none, and a
\* date written with a Tangsa, Kawi or Garay digit is one only for the
\* interpreters whose Unicode database has that digit.
NormalForm(ts) ==
    CASE ts = Date0101 -> <<50, 48, 50, 52, 45, 48, 49, 45, 48, 49>> \o MidnightSuffix
      [] ts = Instant0101 -> <<50, 48, 50, 52, 45, 48, 49, 45, 48, 49>> \o MidnightSuffix
      [] ts = Date0230 -> <<50, 48, 50, 52, 45, 48, 50, 45, 51, 48>>
      [] ts = DateFullwidth ->
             <<65298, 65296, 65298, 65300, 45, 48, 49, 45, 48, 49>> \o MidnightSuffix
      [] ts = Date0102 -> <<50, 48, 50, 52, 45, 49, 45, 50>> \o MidnightSuffix
      [] ts = Instant0102 -> <<50, 48, 50, 52, 45, 48, 49, 45, 48, 50>> \o MidnightSuffix
      [] ts = Word -> <<110, 111, 119>>
      [] ts = DateArabicIndic ->
             <<50, 48, 50, 52, 45, 48, 49, 45, 49, 1635>> \o MidnightSuffix
      [] ts = DateTangsa ->
             <<50, 48, 50, 52, 45, 48, 49, 45, 49, 92867>>
                 \o (IF unidata_version = "13.0.0" THEN <<>> ELSE MidnightSuffix)
      [] ts = DateKawi ->
             <<50, 48, 50, 52, 45, 48, 49, 45, 49, 73555>>
                 \o (IF unidata_version \in {"13.0.0", "14.0.0"}
                     THEN <<>> ELSE MidnightSuffix)
      [] ts = DateGaray ->
             <<50, 48, 50, 52, 45, 48, 49, 45, 49, 68931>>
                 \o (IF unidata_version = "16.0.0" THEN MidnightSuffix ELSE <<>>)

\* C9: in the argument list run_lql_query sends, a supplied start_time
\* (end_time) appears as exactly one StartTimeRange (EndTimeRange) entry
\* holding the normal form of the time as passed, an omitted one leaves the
\* entries of that name as given, and the other well-formed entries keep
\* their order; start_time "2024-01-01" is sent as "2024-01-01T00:00:00Z".
InvC9_TimeArguments ==
    \A i \in 1..Len(requests) :
        requests[i].kind = "execute" =>
            LET sent == requests[i].arguments
            IN  /\ \A name \in TimeNames :
                       IF TruthyStr(SuppliedTime(name))
                       THEN Named(sent, name) =
                                <<[name |-> name,
                                   value |-> NormalForm(SuppliedTime(name).v)]>>
                       ELSE Named(sent, name) = Named(GivenEntries, name)
                /\ Kept(sent) = Kept(GivenEntries)
                /\ args.start_time = Some(Date0101) =>
                       Named(sent, "StartTimeRange") =
                           <<[name |-> "StartTimeRange",
                              value |-> Str(<<"2", "0", "2", "4", "-", "0", "1", "-",
                                              "0", "1", "T", "0", "0", ":", "0", "0",
                                              ":", "0", "0", "Z">>)]>>

\* C9 witness: start_time "2024-01-01" with a StartTimeRange entry and another
\* entry given in args; the request carries the other entry, then the new one.
WitC9_Overridden ==
    /\ tool = "run_lql_query"
    /\ pc = "done"
    /\ args.start_time = Some(Date0101)
    /\ args.end_time.isNone
    /\ ~args.args.isNone
    /\ Len(Named(GivenEntries, "StartTimeRange")) >= 1
    /\ Len(Kept(GivenEntries)) >= 1
    /\ Len(requests) = 2
    /\ Len(requests[2].arguments) = 2
    /\ requests[2].arguments[2].name = "StartTimeRange"

\* C10 (as claimed): every invocation of search_aws_compliance returns.
CexC10_SearchReturns == Searching ~> Returned

====
